---- MODULE Spec2Model ----
(***************************************************************************)
(* Model of semsel: partial semantic versions, version conditions and      *)
(* ranges, the pairwise matching engine, selector validation and the       *)
(* parser entry point.                                                     *)
(*                                                                         *)
(* Python values are represented as follows.                               *)
(*   - strings are sequences of one-character strings;                     *)
(*   - an int field that is None is the integer None (-1), a string field  *)
(*     that is None is NoneStr;                                            *)
(*   - a call that may raise returns a record whose exc field is "None"    *)
(*     when it returned normally and the exception class name otherwise.   *)
(***************************************************************************)
EXTENDS Integers, Sequences, FiniteSets, TLC

VARIABLES
    call,       \* the library call last made by the caller (name + arguments)
    ret,        \* what that call returned or raised
    arg_content,    \* per parse call: the content argument
    arg_validate,   \* per parse call: the validate argument
    pc,         \* per parse call: where the call stands
    cache,      \* the parser's cached transformer, NoTransformer before the first use
    transformer,    \* per parse call: the transformer the call works with
    __validate,     \* per transformer: its private validate attribute
    tree,       \* per parse call: the tokenized tree
    walked,     \* per parse call: the transformed clauses
    passed,     \* per parse call: the validate keyword handed to VersionSelector
    caught,     \* per parse call: the exception caught by the try block
    outcome     \* per parse call: what parse returned or raised

parse_vars ==
    <<arg_content, arg_validate, pc, cache, transformer, __validate, tree, walked,
      passed, caught, outcome>>

vars == <<call, ret, parse_vars>>

(***************************************************************************)
(* Bounds of the explored inputs.                                          *)
(***************************************************************************)
MaxMajor == 2
MaxMinor == 1
MaxPatch == 1

None == -1
NoneStr == <<"None">>

(***************************************************************************)
(* utils.cmp                                                               *)
(***************************************************************************)
cmp(source, target) ==
    (IF source > target THEN 1 ELSE 0) - (IF source < target THEN 1 ELSE 0)

\* cmp applied to two tuples of ints: Python orders tuples lexicographically
RECURSIVE cmp_tuple(_, _)
cmp_tuple(source, target) ==
    IF source = <<>> /\ target = <<>> THEN 0
    ELSE IF source = <<>> THEN -1
    ELSE IF target = <<>> THEN 1
    ELSE IF Head(source) # Head(target) THEN cmp(Head(source), Head(target))
    ELSE cmp_tuple(Tail(source), Tail(target))

\* printable ASCII characters in code point order: 32-33, 35-91, 93-95, 97-126
ASCII_32 == <<" ", "!">>
ASCII_35 ==
    <<"#", "$", "%", "&", "'", "(", ")", "*", "+", ",", "-", ".", "/",
      "0", "1", "2", "3", "4", "5", "6", "7", "8", "9", ":", ";", "<",
      "=", ">", "?", "@", "A", "B", "C", "D", "E", "F", "G", "H", "I",
      "J", "K", "L", "M", "N", "O", "P", "Q", "R", "S", "T", "U", "V",
      "W", "X", "Y", "Z", "[">>
ASCII_93 == <<"]", "^", "_">>
ASCII_97 ==
    <<"a", "b", "c", "d", "e", "f", "g", "h", "i", "j", "k", "l", "m",
      "n", "o", "p", "q", "r", "s", "t", "u", "v", "w", "x", "y", "z",
      "{", "|", "}", "~">>

IndexOf(c, table) == CHOOSE i \in 1..Len(table) : table[i] = c

InTable(c, table) == \E i \in 1..Len(table) : table[i] = c

\* ord(c)
Ord(c) ==
    IF InTable(c, ASCII_32) THEN 31 + IndexOf(c, ASCII_32)
    ELSE IF InTable(c, ASCII_35) THEN 34 + IndexOf(c, ASCII_35)
    ELSE IF InTable(c, ASCII_93) THEN 92 + IndexOf(c, ASCII_93)
    ELSE 96 + IndexOf(c, ASCII_97)

Digits == {"0", "1", "2", "3", "4", "5", "6", "7", "8", "9"}

\* cmp applied to two strings: Python orders strings by code point
RECURSIVE cmp_str(_, _)
cmp_str(source, target) ==
    IF source = <<>> /\ target = <<>> THEN 0
    ELSE IF source = <<>> THEN -1
    ELSE IF target = <<>> THEN 1
    ELSE IF Head(source) # Head(target)
         THEN cmp(Ord(Head(source)), Ord(Head(target)))
    ELSE cmp_str(Tail(source), Tail(target))

\* int(text) for a string of decimal digits
RECURSIVE int(_)
int(text) ==
    IF text = <<>> THEN 0
    ELSE 10 * int(SubSeq(text, 1, Len(text) - 1)) + (Ord(text[Len(text)]) - 48)

(***************************************************************************)
(* version.PartialVersion                                                  *)
(***************************************************************************)
PartialVersion(major, minor, patch, prerelease, build) ==
    [major |-> major, minor |-> minor, patch |-> patch,
     prerelease |-> prerelease, build |-> build]

\* `x or 0` for an optional int field
OrZero(x) == IF x = None THEN 0 ELSE x

\* `x or ""` for an optional string field
OrEmpty(s) == IF s = NoneStr THEN <<>> ELSE s

\* truthiness of an optional string field
Truthy(s) == s # NoneStr /\ s # <<>>

to_tuple(self) ==
    <<self.major, OrZero(self.minor), OrZero(self.patch),
      self.prerelease, self.build>>

\* a major bound that also holds the other version under this minor
__major___within_minor(self, other) ==
    other.major = self.major /\ OrZero(other.minor) <= OrZero(self.minor)

__major__(self, other) == other.major = self.major

__minor__(self, other) ==
    other.major = self.major /\ OrZero(other.minor) <= OrZero(self.minor)

\* str.split(".")
RECURSIVE split(_, _)
split(value, acc) ==
    IF value = <<>> THEN <<acc>>
    ELSE IF Head(value) = "." THEN <<acc>> \o split(Tail(value), <<>>)
    ELSE split(Tail(value), Append(acc, Head(value)))

\* a fragment is an int when it matches ^[0-9]+$
cast_fragment(fragment_value) ==
    IF fragment_value # <<>>
       /\ \A i \in 1..Len(fragment_value) : fragment_value[i] \in Digits
    THEN [isint |-> TRUE, n |-> int(fragment_value), s |-> <<>>]
    ELSE [isint |-> FALSE, n |-> 0, s |-> fragment_value]

get_fragments(value) ==
    LET parts == split(value, <<>>)
    IN  [i \in 1..Len(parts) |-> cast_fragment(parts[i])]

compare_part(source, target) ==
    IF source.isint /\ target.isint THEN cmp(source.n, target.n)
    ELSE IF source.isint THEN -1
    ELSE IF target.isint THEN 1
    ELSE cmp_str(source.s, target.s)

Min(a, b) == IF a < b THEN a ELSE b

prerelease_compare(source_, target_) ==
    LET source == OrEmpty(source_)
        target == OrEmpty(target_)
        source_fragments == get_fragments(source)
        target_fragments == get_fragments(target)
        zipped == 1..Min(Len(source_fragments), Len(target_fragments))
        differing == {i \in zipped :
                        compare_part(source_fragments[i], target_fragments[i]) # 0}
    IN  IF differing # {}
        THEN LET first == CHOOSE i \in differing : \A j \in differing : i <= j
             IN  compare_part(source_fragments[first], target_fragments[first])
        ELSE cmp(Len(source), Len(target))

\* mutant: the build takes part in the comparison when all else is equal
compare_with_build(self, other) ==
    LET comparision == cmp_tuple(SubSeq(to_tuple(self), 1, 3),
                                 SubSeq(to_tuple(other), 1, 3))
        prerelease_comparison ==
            prerelease_compare(self.prerelease, other.prerelease)
    IN  IF comparision # 0 THEN comparision
        ELSE IF prerelease_comparison = 0
        THEN cmp_str(OrEmpty(self.build), OrEmpty(other.build))
        ELSE IF ~Truthy(self.prerelease) THEN 1
        ELSE IF ~Truthy(other.prerelease) THEN -1
        ELSE prerelease_comparison

compare(self, other) ==
    LET source == SubSeq(to_tuple(self), 1, 3)
        target == SubSeq(to_tuple(other), 1, 3)
        comparision == cmp_tuple(source, target)
        prerelease_comparison ==
            prerelease_compare(self.prerelease, other.prerelease)
    IN  IF comparision # 0 THEN comparision
        ELSE IF prerelease_comparison = 0 THEN 0
        ELSE IF ~Truthy(self.prerelease) THEN 1
        ELSE IF ~Truthy(other.prerelease) THEN -1
        ELSE prerelease_comparison

__lt__(self, other) == compare(self, other) < 0
__le__(self, other) == compare(self, other) <= 0
__gt__(self, other) == compare(self, other) > 0
__ge__(self, other) == compare(self, other) >= 0
__eq__(self, other) == compare(self, other) = 0
__ne__(self, other) == compare(self, other) # 0

(***************************************************************************)
(* Results of calls.                                                       *)
(***************************************************************************)
Return(value) == [exc |-> "None", val |-> value, warn |-> FALSE]
Raise(exception) == [exc |-> exception, val |-> FALSE, warn |-> FALSE]
Warn(value) == [exc |-> "None", val |-> value, warn |-> TRUE]

\* value bound to a name in Body, computed once whatever the number of its uses
Let(value, Body(_)) == CHOOSE result \in {Body(x) : x \in {value}} : TRUE

(***************************************************************************)
(* selector.ConditionOperator                                              *)
(***************************************************************************)
EQ == "="
GT == ">"
GE == ">="
LT == "<"
LE == "<="
MAJOR == "^"
MINOR == "~"
ConditionOperator == {EQ, GT, GE, LT, LE, MAJOR, MINOR}

(***************************************************************************)
(* selector.VersionCondition                                               *)
(***************************************************************************)
condition_comparisons ==
    [o \in {EQ, GT, GE, LT, LE} |->
        CASE o = EQ -> {0}
          [] o = GT -> {1}
          [] o = GE -> {0, 1}
          [] o = LT -> {-1}
          [] o = LE -> {-1, 0}]

range_comparisons ==
    [o \in {EQ, GT, GE, LT, LE} |->
        CASE o = EQ -> <<{0, 1}, {-1, 0}>>
          [] o = GT -> <<{-1, 0, 1}, {-1}>>
          [] o = GE -> <<{-1, 0, 1}, {-1, 0}>>
          [] o = LT -> <<{1}, {-1, 0, 1}>>
          [] o = LE -> <<{0, 1}, {-1, 0, 1}>>]

\* the object the constructor builds, before __attrs_post_init__ runs
Condition(operator, version) ==
    [kind |-> "VersionCondition", operator |-> operator, version |-> version]

\* mutant: `not self.version.minor` in place of `self.version.minor is None`
VersionCondition_post_init_falsy(self) ==
    IF self.operator = MINOR /\ OrZero(self.version.minor) = 0
    THEN Raise("InvalidExpression")
    ELSE Return(self)

\* a construction that checks nothing
VersionCondition_post_init_unchecked(self) == Return(self)

VersionCondition_post_init(self) ==
    IF self.operator = MINOR /\ self.version.minor = None
    THEN Raise("InvalidExpression")
    ELSE Return(self)

VersionCondition(operator, version) ==
    VersionCondition_post_init(Condition(operator, version))

\* a minor match that compares the full versions whatever the majors
_match_minor_full_versions(self, version_condition) ==
    IF self.operator # MINOR THEN Raise("ValueError")
    ELSE IF version_condition.operator = MAJOR
    THEN Return(__major__(self.version, version_condition.version))
    ELSE IF version_condition.operator = MINOR
    THEN Return(__minor__(self.version, version_condition.version))
    ELSE IF version_condition.operator \notin DOMAIN condition_comparisons
    THEN Raise("KeyError")
    ELSE Return(compare(self.version, version_condition.version)
                   \in condition_comparisons[version_condition.operator])

_match_minor(self, version_condition) ==
    IF self.operator # MINOR THEN Raise("ValueError")
    ELSE IF version_condition.operator = MAJOR
    THEN Return(__major__(self.version, version_condition.version))
    ELSE IF version_condition.operator = MINOR
    THEN Return(__minor__(self.version, version_condition.version))
    ELSE IF self.version.major = version_condition.version.major
    THEN IF self.version.minor = None THEN Raise("TypeError")
         ELSE IF version_condition.operator \notin DOMAIN condition_comparisons
         THEN Raise("KeyError")
         ELSE Return(cmp(self.version.minor, OrZero(version_condition.version.minor))
                        \in condition_comparisons[version_condition.operator])
    ELSE IF version_condition.operator \notin DOMAIN condition_comparisons
         THEN Raise("KeyError")
         ELSE Return(compare(self.version, version_condition.version)
                        \in condition_comparisons[version_condition.operator])

_match_major(self, version_condition) ==
    IF self.operator # MAJOR THEN Raise("ValueError")
    ELSE IF version_condition.operator \in {MAJOR, MINOR}
    THEN Return(self.version.major = version_condition.version.major)
    ELSE IF version_condition.operator \notin DOMAIN condition_comparisons
    THEN Raise("KeyError")
    ELSE Return(cmp(self.version.major, version_condition.version.major)
                   \in (condition_comparisons[version_condition.operator] \cup {0}))

\* a standard dispatch that looks the result up under the argument's operator
VersionCondition_match_condition_by_argument(self, version_condition) ==
    IF self.operator = MAJOR THEN _match_major(self, version_condition)
    ELSE IF self.operator = MINOR THEN _match_minor(self, version_condition)
    ELSE IF version_condition.operator \notin DOMAIN condition_comparisons
    THEN Warn(FALSE)
    ELSE Return(compare(self.version, version_condition.version)
                   \in condition_comparisons[version_condition.operator])

VersionCondition_match_condition(self, version_condition) ==
    IF self.operator = MAJOR THEN _match_major(self, version_condition)
    ELSE IF self.operator = MINOR THEN _match_minor(self, version_condition)
    ELSE IF self.operator \notin DOMAIN condition_comparisons THEN Warn(FALSE)
    ELSE Return(compare(self.version, version_condition.version)
                   \in condition_comparisons[self.operator])

\* a range match that looks the start up in the end's set and the end in the
\* start's
VersionCondition_match_range_swapped(self, version_range) ==
    IF self.operator = MAJOR
    THEN Return(__major__(self.version, version_range.version_start)
                \/ __major__(self.version, version_range.version_end))
    ELSE IF self.operator = MINOR
    THEN Return(__minor__(self.version, version_range.version_start)
                \/ __minor__(self.version, version_range.version_end))
    ELSE IF self.operator \notin DOMAIN range_comparisons THEN Warn(FALSE)
    ELSE Return(compare(self.version, version_range.version_start)
                    \in range_comparisons[self.operator][2]
                /\ compare(self.version, version_range.version_end)
                    \in range_comparisons[self.operator][1])

VersionCondition_match_range(self, version_range) ==
    IF self.operator = MAJOR
    THEN Return(__major__(self.version, version_range.version_start)
                \/ __major__(self.version, version_range.version_end))
    ELSE IF self.operator = MINOR
    THEN Return(__minor__(self.version, version_range.version_start)
                \/ __minor__(self.version, version_range.version_end))
    ELSE IF self.operator \notin DOMAIN range_comparisons THEN Warn(FALSE)
    ELSE LET start_possibilities == range_comparisons[self.operator][1]
             end_possibilities == range_comparisons[self.operator][2]
         IN  Return(compare(self.version, version_range.version_start)
                        \in start_possibilities
                    /\ compare(self.version, version_range.version_end)
                        \in end_possibilities)

VersionCondition_match(self, other) ==
    IF other.kind = "VersionRange"
    THEN VersionCondition_match_range(self, other)
    ELSE VersionCondition_match_condition(self, other)

(***************************************************************************)
(* selector.VersionRange                                                   *)
(***************************************************************************)
Range(version_start, version_end) ==
    [kind |-> "VersionRange", version_start |-> version_start,
     version_end |-> version_end]

\* mutant: `<` in place of `<=`
VersionRange_post_init_lt(self) ==
    IF __lt__(self.version_end, self.version_start)
    THEN Raise("InvalidExpression")
    ELSE Return(self)

VersionRange_post_init(self) ==
    IF __le__(self.version_end, self.version_start)
    THEN Raise("InvalidExpression")
    ELSE Return(self)

VersionRange(version_start, version_end) ==
    VersionRange_post_init(Range(version_start, version_end))

VersionRange_match_condition(self, version_condition) ==
    VersionCondition_match_range(version_condition, self)

VersionRange_match_range(self, version_range) ==
    Return(__le__(self.version_start, version_range.version_end)
           /\ __le__(version_range.version_start, self.version_end))

VersionRange_match(self, other) ==
    IF other.kind = "VersionCondition"
    THEN VersionRange_match_condition(self, other)
    ELSE VersionRange_match_range(self, other)

\* source.match(target): the method of the receiver's class
match(source, target) ==
    IF source.kind = "VersionCondition"
    THEN VersionCondition_match(source, target)
    ELSE VersionRange_match(source, target)


(***************************************************************************)
(* selector.VersionSelector                                                *)
(***************************************************************************)
Selector(clauses) == [kind |-> "VersionSelector", clauses |-> clauses]

\* a loop over the pairs that asks the later entry whether it matches the earlier
RECURSIVE validate_clause_target_first(_, _, _)
validate_clause_target_first(clause, i, j) ==
    IF i >= Len(clause) THEN Return(TRUE)
    ELSE IF j > Len(clause) THEN validate_clause_target_first(clause, i + 1, i + 2)
    ELSE Let(match(clause[j], clause[i]), LAMBDA result :
             IF result.exc # "None" THEN Raise(result.exc)
             ELSE IF ~result.val
             THEN [exc |-> "InvalidExpression", val |-> FALSE, warn |-> FALSE,
                   source |-> clause[i], target |-> clause[j], clause |-> clause]
             ELSE validate_clause_target_first(clause, i, j + 1))

\* the loop over itertools.combinations(clause, 2) from the index pair <<i, j>>
\* on: the pairs come in lexicographic order and the first pair whose match is
\* false (or raises) ends the loop
RECURSIVE validate_clause(_, _, _)
validate_clause(clause, i, j) ==
    IF i >= Len(clause) THEN Return(TRUE)
    ELSE IF j > Len(clause) THEN validate_clause(clause, i + 1, i + 2)
    ELSE Let(match(clause[i], clause[j]), LAMBDA result :
             IF result.exc # "None" THEN Raise(result.exc)
             ELSE IF ~result.val
             THEN [exc |-> "InvalidExpression", val |-> FALSE, warn |-> FALSE,
                   source |-> clause[i], target |-> clause[j], clause |-> clause]
             ELSE validate_clause(clause, i, j + 1))

\* the loop over self.clauses from clause number c on
RECURSIVE validate_clauses(_, _)
validate_clauses(self, c) ==
    IF c > Len(self.clauses) THEN Return(self)
    ELSE Let(validate_clause(self.clauses[c], 1, 2), LAMBDA result :
             IF result.exc # "None" THEN result
             ELSE validate_clauses(self, c + 1))

VersionSelector_post_init(self) == validate_clauses(self, 1)

\* the attrs-generated __init__ takes the one attribute `clauses`; validate is
\* the value of a `validate=` keyword argument, "absent" when none is passed
VersionSelector(clauses, validate) ==
    IF validate # "absent" THEN Raise("TypeError")
    ELSE VersionSelector_post_init(Selector(clauses))


(***************************************************************************)
(* parser.GRAMMAR, as the Earley parser built from it recognises it.       *)
(* After str.strip() a selector has no surrounding whitespace, and a       *)
(* version is always followed by a space, by "|" or by the end of input,   *)
(* so a version is a maximal run of version characters.                    *)
(***************************************************************************)
Letters == {ASCII_35[i] : i \in 31..56} \cup {ASCII_97[i] : i \in 1..26}

Whitespace == {" ", "\t", "\n"}

RECURSIVE lstrip(_)
lstrip(content) ==
    IF content # <<>> /\ Head(content) \in Whitespace
    THEN lstrip(Tail(content)) ELSE content

RECURSIVE rstrip(_)
rstrip(content) ==
    IF content # <<>> /\ content[Len(content)] \in Whitespace
    THEN rstrip(SubSeq(content, 1, Len(content) - 1)) ELSE content

strip(content) == rstrip(lstrip(content))

Token(type, value) == [type |-> type, value |-> value]
Tree(data, children) == [data |-> data, children |-> children]

\* the character at position p, "" past the end
At(s, p) == IF p >= 1 /\ p <= Len(s) THEN s[p] ELSE ""

\* VERSION_DIGIT: ("0" | "1".."9") DIGIT*
VERSION_DIGIT(w) == w # <<>> /\ \A i \in 1..Len(w) : w[i] \in Digits

\* VERSION_ALPHANUMERIC: DIGIT | CHARACTER | HYPHEN
VERSION_ALPHANUMERIC == Digits \cup Letters \cup {"-"}

\* a dot-separated list of non-empty alphanumeric fragments: BUILD, and also
\* PRERELEASE, whose fragments are (DIGIT* VERSION_ALPHA VERSION_ALPHANUMERIC*)
\* when they hold a non-digit and VERSION_DIGIT when they do not
BUILD(w) ==
    \A i \in 1..Len(split(w, <<>>)) :
        LET f == split(w, <<>>)[i]
        IN  f # <<>> /\ \A k \in 1..Len(f) : f[k] \in VERSION_ALPHANUMERIC

PRERELEASE(w) == BUILD(w)

\* first position from p on holding a character of the set, Len(s) + 1 if none
RECURSIVE find(_, _, _)
find(s, p, set) ==
    IF p > Len(s) \/ s[p] \in set THEN p ELSE find(s, p + 1, set)

\* first position from p on that holds no version character
RECURSIVE run_end(_, _)
run_end(s, p) ==
    IF p <= Len(s) /\ s[p] \in (VERSION_ALPHANUMERIC \cup {".", "+"})
    THEN run_end(s, p + 1) ELSE p

\* the tokens of a version whose core is split and whose suffix starts at rest
version_tokens(core, rest, plus) ==
    LET prerelease == IF At(rest, 1) = "-" THEN SubSeq(rest, 2, plus - 1) ELSE <<>>
        build == SubSeq(rest, plus + 1, Len(rest))
        names == <<"MAJOR", "MINOR", "PATCH">>
        ok == /\ Len(core) <= 3
              /\ \A i \in 1..Len(core) : VERSION_DIGIT(core[i])
              /\ rest # <<>> => Len(core) = 3
              /\ At(rest, 1) = "-" => PRERELEASE(prerelease)
              /\ plus <= Len(rest) => BUILD(build)
    IN  IF ~ok THEN [ok |-> FALSE, children |-> <<>>]
        ELSE [ok |-> TRUE,
              children |->
                  [i \in 1..Len(core) |-> Token(names[i], core[i])]
                  \o (IF At(rest, 1) = "-"
                      THEN <<Token("PRERELEASE", prerelease)>> ELSE <<>>)
                  \o (IF plus <= Len(rest)
                      THEN <<Token("BUILD", build)>> ELSE <<>>)]

\* version: MAJOR ("." MINOR ("." PATCH ("-" PRERELEASE)? ("+" BUILD)?)?)?
version_rule(w) ==
    Let(find(w, 1, {"-", "+"}), LAMBDA cut :
    Let(split(SubSeq(w, 1, cut - 1), <<>>), LAMBDA core :
    Let(SubSeq(w, cut, Len(w)), LAMBDA rest :
    Let(find(rest, 1, {"+"}), LAMBDA plus :
        version_tokens(core, rest, plus)))))

NoParse == [ok |-> FALSE, pos |-> 0, node |-> <<>>]

\* OPERATOR? " "? version, the version ending before q
condition_node(s, p, oplen, q, first) ==
    [ok |-> TRUE, pos |-> q,
     node |-> Tree("version_condition",
                   (IF oplen > 0
                    THEN <<Token("OPERATOR", SubSeq(s, p, p + oplen - 1))>>
                    ELSE <<>>)
                   \o <<Tree("version", first.children)>>)]

\* version " - " version, the second version ending before q
range_node(q, first, second) ==
    [ok |-> TRUE, pos |-> q,
     node |-> Tree("version_range",
                   <<Tree("version", first.children),
                     Tree("version", second.children)>>)]

\* version_range: version " - " version
\* version_condition: OPERATOR? " "? version
item_rule(s, p) ==
    LET oplen == IF At(s, p) \in {">", "<"} /\ At(s, p + 1) = "=" THEN 2
                 ELSE IF At(s, p) \in {"=", ">", "<", "^", "~"} THEN 1
                 ELSE 0
        space == At(s, p + oplen) = " "
        p2 == IF space THEN p + oplen + 1 ELSE p + oplen
    IN  Let(run_end(s, p2), LAMBDA q :
        Let(version_rule(SubSeq(s, p2, q - 1)), LAMBDA first :
            IF ~first.ok THEN NoParse
            ELSE IF /\ oplen = 0 /\ ~space
                    /\ At(s, q) = " " /\ At(s, q + 1) = "-" /\ At(s, q + 2) = " "
            THEN Let(run_end(s, q + 3), LAMBDA q2 :
                 Let(version_rule(SubSeq(s, q + 3, q2 - 1)), LAMBDA second :
                     IF second.ok THEN range_node(q2, first, second)
                     ELSE condition_node(s, p, oplen, q, first)))
            ELSE condition_node(s, p, oplen, q, first)))

\* version_clause: (version_condition | version_range)
\*                 (" " (version_condition | version_range))*
RECURSIVE clause_rest(_, _, _)
clause_rest(s, p, items) ==
    IF At(s, p) = " " /\ At(s, p + 1) # "|"
    THEN Let(item_rule(s, p + 1), LAMBDA next :
             IF next.ok
             THEN Let(Append(items, next.node), LAMBDA more :
                      clause_rest(s, next.pos, more))
             ELSE NoParse)
    ELSE [ok |-> TRUE, pos |-> p, node |-> Tree("version_clause", items)]

clause_rule(s, p) ==
    Let(item_rule(s, p), LAMBDA first :
        IF first.ok THEN clause_rest(s, first.pos, <<first.node>>) ELSE NoParse)

\* selector: version_clause (" "? "||" " "? version_clause)*
RECURSIVE selector_rest(_, _, _)
selector_rest(s, p, clauses) ==
    IF p > Len(s) THEN [ok |-> TRUE, pos |-> p, node |-> Tree("selector", clauses)]
    ELSE LET p1 == IF At(s, p) = " " THEN p + 1 ELSE p
             p3 == IF At(s, p1 + 2) = " " THEN p1 + 3 ELSE p1 + 2
         IN  IF At(s, p1) = "|" /\ At(s, p1 + 1) = "|"
             THEN Let(clause_rule(s, p3), LAMBDA next :
                      IF next.ok
                      THEN Let(Append(clauses, next.node), LAMBDA more :
                               selector_rest(s, next.pos, more))
                      ELSE NoParse)
             ELSE NoParse

selector_rule(s) ==
    Let(clause_rule(s, 1), LAMBDA first :
        IF first.ok THEN selector_rest(s, first.pos, <<first.node>>) ELSE NoParse)

\* SemselParser.tokenize: input the grammar does not derive makes the parser
\* raise UnexpectedCharacters or UnexpectedEOF, both lark's UnexpectedInput
tokenize(content) ==
    Let(strip(content), LAMBDA s :
    Let(selector_rule(s), LAMBDA parsed :
        IF parsed.ok THEN Return(parsed.node) ELSE Raise("UnexpectedInput")))

(***************************************************************************)
(* Rendering: the __str__ methods.                                         *)
(***************************************************************************)
\* str(n) for a non-negative int
RECURSIVE str_int(_)
str_int(n) ==
    IF n < 10 THEN <<ASCII_35[14 + n]>>
    ELSE Append(str_int(n \div 10), ASCII_35[14 + (n % 10)])

\* ConditionOperator.value
operator_value(operator) ==
    CASE operator = EQ -> <<"=">>
      [] operator = GT -> <<">">>
      [] operator = GE -> <<">", "=">>
      [] operator = LT -> <<"<">>
      [] operator = LE -> <<"<", "=">>
      [] operator = MAJOR -> <<"^">>
      [] operator = MINOR -> <<"~">>

PartialVersion_str(self) ==
    str_int(self.major)
    \o (IF self.minor # None THEN <<".">> \o str_int(self.minor) ELSE <<>>)
    \o (IF self.patch # None THEN <<".">> \o str_int(self.patch) ELSE <<>>)
    \o (IF self.prerelease # NoneStr THEN <<"-">> \o self.prerelease ELSE <<>>)
    \o (IF self.build # NoneStr THEN <<"+">> \o self.build ELSE <<>>)

VersionCondition_str(self) ==
    operator_value(self.operator) \o PartialVersion_str(self.version)

VersionRange_str(self) ==
    PartialVersion_str(self.version_start) \o <<" ", "-", " ">>
    \o PartialVersion_str(self.version_end)

expression_str(expression) ==
    IF expression.kind = "VersionCondition" THEN VersionCondition_str(expression)
    ELSE VersionRange_str(expression)

\* separator.join(parts)
RECURSIVE join(_, _)
join(separator, parts) ==
    IF parts = <<>> THEN <<>>
    ELSE IF Len(parts) = 1 THEN parts[1]
    ELSE parts[1] \o separator \o join(separator, Tail(parts))

_format_clause(clause) ==
    join(<<" ">>, [i \in 1..Len(clause) |-> expression_str(clause[i])])

_format_clause_group(clause_group) ==
    join(<<" ", "|", "|", " ">>,
         [i \in 1..Len(clause_group) |-> _format_clause(clause_group[i])])

VersionSelector_str(self) == _format_clause_group(self.clauses)

(***************************************************************************)
(* parser.SemselTransformer.  A callback's argument is the list of its     *)
(* node's transformed children; a transformed child that is not a Token    *)
(* carries its class in the field type.                                    *)
(***************************************************************************)
Object(class, value) == [type |-> class, value |-> value]

\* Transformer._call_userfunc: an exception a callback raises leaves the
\* transformer wrapped in a VisitError
VisitError(raised) ==
    [exc |-> "VisitError", val |-> FALSE, warn |-> FALSE, orig_exc |-> raised]

visit(call_result) ==
    Let(call_result, LAMBDA result :
        IF result.exc # "None" THEN VisitError(result) ELSE result)

\* MAJOR, MINOR, PATCH
cast_to_int(token) == Token(token.type, int(token.value))

\* OPERATOR: ConditionOperator(token.value)
OPERATOR(token) ==
    IF \E o \in ConditionOperator : operator_value(o) = token.value
    THEN Return(Object("ConditionOperator",
                       CHOOSE o \in ConditionOperator :
                           operator_value(o) = token.value))
    ELSE Raise("ValueError")

\* version_dict.get(key, default), the dict being built from the tokens
field(tokens, type, default) ==
    IF \E i \in 1..Len(tokens) : tokens[i].type = type
    THEN tokens[CHOOSE i \in 1..Len(tokens) : tokens[i].type = type].value
    ELSE default

from_dict(tokens) ==
    PartialVersion(field(tokens, "MAJOR", None), field(tokens, "MINOR", None),
                   field(tokens, "PATCH", None),
                   field(tokens, "PRERELEASE", NoneStr),
                   field(tokens, "BUILD", NoneStr))

version(tokens) == Return(Object("PartialVersion", from_dict(tokens)))

\* a callback that takes its only child for a version without looking at it
version_condition_unchecked_version(tokens) ==
    IF Len(tokens) = 1 THEN VersionCondition(EQ, tokens[1].value)
    ELSE IF Len(tokens) = 2
    THEN IF tokens[1].type # "ConditionOperator" THEN Raise("ParseFailure")
         ELSE IF tokens[2].type # "PartialVersion" THEN Raise("ParseFailure")
         ELSE VersionCondition(tokens[1].value, tokens[2].value)
    ELSE Raise("ParseFailure")

version_condition(tokens) ==
    IF Len(tokens) = 1
    THEN IF tokens[1].type # "PartialVersion" THEN Raise("ParseFailure")
         ELSE VersionCondition(EQ, tokens[1].value)
    ELSE IF Len(tokens) = 2
    THEN IF tokens[1].type # "ConditionOperator" THEN Raise("ParseFailure")
         ELSE IF tokens[2].type # "PartialVersion" THEN Raise("ParseFailure")
         ELSE VersionCondition(tokens[1].value, tokens[2].value)
    ELSE Raise("ParseFailure")

version_range(tokens) ==
    IF Len(tokens) # 2 THEN Raise("ParseFailure")
    ELSE VersionRange(tokens[1].value, tokens[2].value)

version_clause(tokens) == Return(tokens)

\* the callback of the selector rule; validate is the transformer's attribute,
\* which exists once transform() has set it
selector(tokens, validate) ==
    IF validate = "unset" THEN Raise("AttributeError")
    ELSE VersionSelector(tokens, validate)

\* a token of a version node: the casts of visit_tokens=True
transform_token(token) ==
    IF token.type \in {"MAJOR", "MINOR", "PATCH"} THEN cast_to_int(token)
    ELSE token

\* a child of a version_condition or version_range node
transform_child(child) ==
    IF "data" \in DOMAIN child
    THEN visit(version([i \in 1..Len(child.children) |->
                            transform_token(child.children[i])]))
    ELSE visit(OPERATOR(child))

\* the children of an item node, left to right, up to the first that raises
RECURSIVE transform_children(_, _)
transform_children(children, acc) ==
    IF children = <<>> THEN Return(acc)
    ELSE Let(transform_child(Head(children)), LAMBDA result :
             IF result.exc # "None" THEN result
             ELSE transform_children(Tail(children), Append(acc, result.val)))

transform_item(node) ==
    Let(transform_children(node.children, <<>>), LAMBDA children :
        IF children.exc # "None" THEN children
        ELSE IF node.data = "version_range" THEN visit(version_range(children.val))
        ELSE visit(version_condition(children.val)))

\* the items of a clause node, left to right, up to the first that raises
RECURSIVE transform_items(_, _)
transform_items(items, acc) ==
    IF items = <<>> THEN Return(acc)
    ELSE Let(transform_item(Head(items)), LAMBDA result :
             IF result.exc # "None" THEN result
             ELSE transform_items(Tail(items), Append(acc, result.val)))

transform_clause(node) ==
    Let(transform_items(node.children, <<>>), LAMBDA children :
        IF children.exc # "None" THEN children
        ELSE visit(version_clause(children.val)))

\* the transformation of everything below the selector node
RECURSIVE transform_clauses(_, _)
transform_clauses(nodes, acc) ==
    IF nodes = <<>> THEN Return(acc)
    ELSE Let(transform_clause(Head(nodes)), LAMBDA result :
             IF result.exc # "None" THEN result
             ELSE transform_clauses(Tail(nodes), Append(acc, result.val)))

\* an except clause that re-raises the cause whatever it is
parse_except_any_cause(exc) ==
    IF exc.exc = "VisitError" THEN exc.orig_exc ELSE exc

\* the except clause of SemselParser.parse
parse_except(exc) ==
    IF exc.exc = "VisitError"
    THEN IF exc.orig_exc.exc \in {"ParseFailure", "InvalidExpression"}
         THEN exc.orig_exc
         ELSE exc
    ELSE exc

(***************************************************************************)
(* Inputs of the explored calls.                                           *)
(***************************************************************************)
MaxClauses == 2
MaxClauseLen == 3

Prereleases == {NoneStr, <<"a">>}

OptionalMinors == {None} \cup (0..MaxMinor)
OptionalPatches == {None} \cup (0..MaxPatch)

\* versions as the grammar and the test strategies build them: patch only
\* with minor, prerelease only with patch
Versions ==
    {PartialVersion(M, m, p, pre, NoneStr) :
        <<M, m, p, pre>> \in
            {t \in (0..MaxMajor) \X OptionalMinors \X OptionalPatches \X Prereleases :
                /\ (t[2] = None => t[3] = None)
                /\ (t[3] = None => t[4] = NoneStr)}}

Conditions ==
    {VersionCondition(a[1], a[2]).val :
        a \in {b \in ConditionOperator \X Versions :
                  VersionCondition(b[1], b[2]).exc = "None"}}

\* endpoints of the ranges that take part in the explored matches
RangeEnds == {v \in Versions : v.patch = None}

Ranges ==
    {VersionRange(a[1], a[2]).val :
        a \in {b \in RangeEnds \X RangeEnds :
                  VersionRange(b[1], b[2]).exc = "None"}}

Entries == Conditions \cup Ranges

V(M, m, p) == PartialVersion(M, m, p, NoneStr, NoneStr)

\* entries the explored selectors are made of
SelectorEntries ==
    {Condition(GE, V(1, None, None)), Condition(LT, V(1, None, None)),
     Range(V(0, 1, None), V(1, 1, None))}

\* the clauses of the selectors ">1 <1.3", ">1 <1.3 || =1.5.2" and
\* ">1 <1.3 ^2" of the specification
ExampleSelectors ==
    LET bounds == <<Condition(GT, V(1, None, None)), Condition(LT, V(1, 3, None))>>
    IN  {<<bounds>>,
         <<bounds, <<Condition(EQ, V(1, 5, 2))>>>>,
         <<Append(bounds, Condition(MAJOR, V(2, None, None)))>>}

SeqsUpTo(S, n) == UNION {[1..k -> S] : k \in 1..n}

SelectorClauses == SeqsUpTo(SeqsUpTo(SelectorEntries, MaxClauseLen), MaxClauses)

(***************************************************************************)
(* The caller's direct uses of the library.  A behaviour is one call: the  *)
(* initial state holds the call and its arguments, the action of the       *)
(* called operation runs it and records what it returned or raised.        *)
(***************************************************************************)
Pending == [exc |-> "Pending", val |-> FALSE, warn |-> FALSE]

Calls ==
    {[name |-> "VersionCondition", operator |-> o, version |-> v] :
        <<o, v>> \in ConditionOperator \X Versions}
    \cup {[name |-> "VersionRange", version_start |-> s, version_end |-> e] :
        <<s, e>> \in Versions \X Versions}
    \cup {[name |-> "match", self |-> X, other |-> Y] :
        <<X, Y>> \in Entries \X Entries}
    \cup {[name |-> "VersionSelector", clauses |-> c, validate |-> k] :
        <<c, k>> \in SelectorClauses \X {"absent", "True", "False"}}
    \cup {[name |-> "VersionSelector", clauses |-> c, validate |-> "absent"] :
        c \in ExampleSelectors}

NewVersionCondition ==
    /\ ret.exc = "Pending"
    /\ call.name = "VersionCondition"
    /\ ret' = VersionCondition(call.operator, call.version)
    /\ UNCHANGED <<call, parse_vars>>

NewVersionRange ==
    /\ ret.exc = "Pending"
    /\ call.name = "VersionRange"
    /\ ret' = VersionRange(call.version_start, call.version_end)
    /\ UNCHANGED <<call, parse_vars>>

Match ==
    /\ ret.exc = "Pending"
    /\ call.name = "match"
    /\ ret' = match(call.self, call.other)
    /\ UNCHANGED <<call, parse_vars>>

NewVersionSelector ==
    /\ ret.exc = "Pending"
    /\ call.name = "VersionSelector"
    /\ ret' = VersionSelector(call.clauses, call.validate)
    /\ UNCHANGED <<call, parse_vars>>

(***************************************************************************)
(* SemselParser.parse, called by two threads on one parser.  The parser's  *)
(* transformer is created on first use and kept; transform() stores the    *)
(* validate argument on the transformer before the tree is walked, and the *)
(* selector callback reads it back at the end of the walk.                 *)
(***************************************************************************)
Callers == {1, 2}

NoTransformer == 0

\* a transformer is named after the call that created it
Transformers == Callers

NoException == [exc |-> "None", val |-> FALSE, warn |-> FALSE]

Example ==
    <<">", "2", ".", "3", ".", "4", " ", "<", "2", ".", "4", " ", "|", "|", " ", "2", ".", "3", ".", "9">>

ExampleRendered ==
    <<">", "2", ".", "3", ".", "4", " ", "<", "2", ".", "4", " ", "|", "|", " ", "=", "2", ".", "3", ".", "9">>

\* the strings handed to parse
Contents ==
    {Example, <<>>, <<"<", ">", "1", ".", "0">>, <<"~", "1">>,
     <<"2", " ", "-", " ", "1">>, <<"<", "1", " ", ">", "=", "1">>, <<" ", "1", ".", "0", "	">>}

Flags == {"True", "False"}

Idle ==
    /\ arg_content = [c \in Callers |-> <<>>]
    /\ arg_validate = [c \in Callers |-> "True"]
    /\ pc = [c \in Callers |-> "idle"]
    /\ cache = NoTransformer
    /\ transformer = [c \in Callers |-> NoTransformer]
    /\ __validate = [t \in Transformers |-> "unset"]
    /\ tree = [c \in Callers |-> NoException]
    /\ walked = [c \in Callers |-> <<>>]
    /\ passed = [c \in Callers |-> "none"]
    /\ caught = [c \in Callers |-> NoException]
    /\ outcome = [c \in Callers |-> Pending]

\* self.transformer: the attribute is in the parser's __dict__ once computed
GetTransformer(c) ==
    /\ pc[c] = "parse"
    /\ IF cache # NoTransformer
       THEN /\ transformer' = [transformer EXCEPT ![c] = cache]
            /\ pc' = [pc EXCEPT ![c] = "tokenize"]
       ELSE /\ pc' = [pc EXCEPT ![c] = "create"]
            /\ UNCHANGED transformer
    /\ UNCHANGED <<call, ret, arg_content, arg_validate, cache, __validate, tree,
                   walked, passed, caught, outcome>>

\* cached_property.__get__: SemselTransformer(visit_tokens=True) is built and
\* stored in the parser's __dict__
CreateTransformer(c) ==
    /\ pc[c] = "create"
    /\ cache' = c
    /\ transformer' = [transformer EXCEPT ![c] = c]
    /\ pc' = [pc EXCEPT ![c] = "tokenize"]
    /\ UNCHANGED <<call, ret, arg_content, arg_validate, __validate, tree, walked,
                   passed, caught, outcome>>

\* self.tokenize(content); what lark raises is not a VisitError and leaves parse
Tokenize(c) ==
    /\ pc[c] = "tokenize"
    /\ \E result \in {tokenize(arg_content[c])} :
           IF result.exc # "None"
           THEN /\ outcome' = [outcome EXCEPT ![c] = result]
                /\ pc' = [pc EXCEPT ![c] = "done"]
                /\ UNCHANGED tree
           ELSE /\ tree' = [tree EXCEPT ![c] = result]
                /\ pc' = [pc EXCEPT ![c] = "transform"]
                /\ UNCHANGED outcome
    /\ UNCHANGED <<call, ret, arg_content, arg_validate, cache, transformer,
                   __validate, walked, passed, caught>>

\* SemselTransformer.transform: self.__validate = validate
Transform(c) ==
    /\ pc[c] = "transform"
    /\ __validate' = [__validate EXCEPT ![transformer[c]] = arg_validate[c]]
    /\ pc' = [pc EXCEPT ![c] = "walk"]
    /\ UNCHANGED <<call, ret, arg_content, arg_validate, cache, transformer, tree,
                   walked, passed, caught, outcome>>

\* super().transform(tree), up to the children of the selector node
Walk(c) ==
    /\ pc[c] = "walk"
    /\ \E result \in {transform_clauses(tree[c].val.children, <<>>)} :
           IF result.exc # "None"
           THEN /\ caught' = [caught EXCEPT ![c] = result]
                /\ pc' = [pc EXCEPT ![c] = "except"]
                /\ UNCHANGED walked
           ELSE /\ walked' = [walked EXCEPT ![c] = result.val]
                /\ pc' = [pc EXCEPT ![c] = "selector"]
                /\ UNCHANGED caught
    /\ UNCHANGED <<call, ret, arg_content, arg_validate, cache, transformer,
                   __validate, tree, passed, outcome>>

\* the selector callback, which ends the walk
SelectorCallback(c) ==
    /\ pc[c] = "selector"
    /\ passed' = [passed EXCEPT ![c] = __validate[transformer[c]]]
    /\ \E result \in {visit(selector(walked[c], __validate[transformer[c]]))} :
           IF result.exc # "None"
           THEN /\ caught' = [caught EXCEPT ![c] = result]
                /\ pc' = [pc EXCEPT ![c] = "except"]
                /\ UNCHANGED outcome
           ELSE /\ outcome' = [outcome EXCEPT ![c] = result]
                /\ pc' = [pc EXCEPT ![c] = "done"]
                /\ UNCHANGED caught
    /\ UNCHANGED <<call, ret, arg_content, arg_validate, cache, transformer,
                   __validate, tree, walked>>

\* except VisitError as exc
Except(c) ==
    /\ pc[c] = "except"
    /\ outcome' = [outcome EXCEPT ![c] = parse_except(caught[c])]
    /\ pc' = [pc EXCEPT ![c] = "done"]
    /\ UNCHANGED <<call, ret, arg_content, arg_validate, cache, transformer,
                   __validate, tree, walked, passed, caught>>

Init ==
    /\ call \in Calls
    /\ ret = Pending
    /\ Idle

Next ==
    \/ NewVersionCondition
    \/ NewVersionRange
    \/ Match
    \/ NewVersionSelector

Spec == Init /\ [][Next]_vars

InitParse ==
    /\ call = [name |-> "parse"]
    /\ ret = Pending
    /\ arg_content \in [Callers -> Contents]
    /\ arg_validate \in [Callers -> Flags]
    /\ pc = [c \in Callers |-> "parse"]
    /\ cache = NoTransformer
    /\ transformer = [c \in Callers |-> NoTransformer]
    /\ __validate = [t \in Transformers |-> "unset"]
    /\ tree = [c \in Callers |-> NoException]
    /\ walked = [c \in Callers |-> <<>>]
    /\ passed = [c \in Callers |-> "none"]
    /\ caught = [c \in Callers |-> NoException]
    /\ outcome = [c \in Callers |-> Pending]

NextParse ==
    \E c \in Callers :
        \/ GetTransformer(c)
        \/ CreateTransformer(c)
        \/ Tokenize(c)
        \/ Transform(c)
        \/ Walk(c)
        \/ SelectorCallback(c)
        \/ Except(c)

SpecParse == InitParse /\ [][NextParse]_vars

(***************************************************************************)
(* What the specification says of an entry: the versions it admits.        *)
(***************************************************************************)
\* fully specified versions: one step beyond every bound of the entries, with
\* a prerelease below and one above each prerelease of the entries, so that
\* every gap between two bounds of the entries holds a concrete version
ConcreteVersions ==
    {PartialVersion(M, m, p, pre, NoneStr) :
        <<M, m, p, pre>> \in (0..MaxMajor + 1) \X (0..MaxMinor + 1)
                              \X (0..MaxPatch + 1)
                              \X (Prereleases \cup {<<"0">>, <<"b">>})}

Satisfies(v, entry) ==
    IF entry.kind = "VersionRange"
    THEN compare(entry.version_start, v) <= 0 /\ compare(v, entry.version_end) <= 0
    ELSE CASE entry.operator = EQ -> compare(v, entry.version) = 0
           [] entry.operator = GT -> compare(v, entry.version) > 0
           [] entry.operator = GE -> compare(v, entry.version) >= 0
           [] entry.operator = LT -> compare(v, entry.version) < 0
           [] entry.operator = LE -> compare(v, entry.version) <= 0
           [] entry.operator = MAJOR -> v.major = entry.version.major
           [] entry.operator = MINOR -> /\ v.major = entry.version.major
                                        /\ v.minor = entry.version.minor

Satisfiable(X, Y) == \E v \in ConcreteVersions : Satisfies(v, X) /\ Satisfies(v, Y)

Returned(name) == call.name = name /\ ret.exc # "Pending"

(***************************************************************************)
(* C1: X.match(Y) is true exactly when some concrete version satisfies     *)
(* both X and Y.                                                           *)
(***************************************************************************)
C1_MatchIffSatisfiable ==
    Returned("match") =>
        /\ ret.exc = "None"
        /\ ret.val <=> Satisfiable(call.self, call.other)

(***************************************************************************)
(* C2: match is symmetric: X.match(Y) and Y.match(X) return the same       *)
(* boolean.                                                                *)
(***************************************************************************)
C2_MatchSymmetric ==
    Returned("match") => ret.val = match(call.other, call.self).val

(***************************************************************************)
(* C3: in a selector whose validated construction succeeded, any two       *)
(* distinct entries of a clause match each other in both directions.       *)
(***************************************************************************)
C3_ValidatedClausesCompatible ==
    (Returned("VersionSelector") /\ ret.exc = "None") =>
        \A c \in 1..Len(ret.val.clauses) :
            \A i, j \in 1..Len(ret.val.clauses[c]) :
                i # j => /\ match(ret.val.clauses[c][i], ret.val.clauses[c][j]).val
                         /\ match(ret.val.clauses[c][j], ret.val.clauses[c][i]).val

(***************************************************************************)
(* C7: a selector built with validate=false is built whatever its clauses  *)
(* hold and keeps them as given; built without the flag it is validated.   *)
(***************************************************************************)
HasConflict(clauses) ==
    \E c \in 1..Len(clauses) :
        \E i, j \in 1..Len(clauses[c]) :
            i < j /\ ~match(clauses[c][i], clauses[c][j]).val

C7_ValidationOptional ==
    Returned("VersionSelector") =>
        /\ call.validate = "False" =>
              ret.exc = "None" /\ ret.val.clauses = call.clauses
        /\ call.validate = "absent" =>
              (ret.exc = "InvalidExpression" <=> HasConflict(call.clauses))

(***************************************************************************)
(* C9: VersionRange construction fails with InvalidExpression exactly when *)
(* version_end is not strictly greater than version_start; every range     *)
(* that exists has version_start < version_end.                            *)
(***************************************************************************)
C9_RangeEndAfterStart ==
    Returned("VersionRange") =>
        /\ ret.exc \in {"None", "InvalidExpression"}
        /\ ret.exc = "InvalidExpression"
              <=> ~(compare(call.version_end, call.version_start) > 0)
        /\ ret.exc = "None" =>
              /\ ret.val = Range(call.version_start, call.version_end)
              /\ compare(ret.val.version_start, ret.val.version_end) < 0

\* `1 - 1.0.0` is refused
C9_Witness ==
    /\ Returned("VersionRange")
    /\ call.version_start = V(1, None, None)
    /\ call.version_end = V(1, 0, 0)
    /\ ret.exc = "InvalidExpression"

(***************************************************************************)
(* C10: VersionCondition construction fails with InvalidExpression exactly *)
(* when the operator is `~` and the version's minor is unset.              *)
(***************************************************************************)
C10_MinorNeedsExplicitMinor ==
    Returned("VersionCondition") =>
        IF call.operator = MINOR /\ call.version.minor = None
        THEN ret.exc = "InvalidExpression"
        ELSE ret = Return(Condition(call.operator, call.version))

\* `~1.0` is built, its explicit minor being 0
C10_Witness ==
    /\ Returned("VersionCondition")
    /\ call.operator = MINOR
    /\ call.version = V(1, 0, None)
    /\ ret.exc = "None"
(***************************************************************************)
(* Claims about SemselParser.parse.                                        *)
(***************************************************************************)
Done(c) == pc[c] = "done"

\* C4: parsing ">2.3.4 <2.4 || 2.3.9" with default validation succeeds, and
\* the selector holds the clauses [>2.3.4, <2.4] and [=2.3.9] and renders as
\* ">2.3.4 <2.4 || =2.3.9".
C4_ExampleParses ==
    \A c \in Callers :
        Done(c) /\ arg_content[c] = Example /\ arg_validate[c] = "True"
        => /\ outcome[c].exc = "None"
           /\ outcome[c].val.clauses =
                <<<<Condition(GT, V(2, 3, 4)), Condition(LT, V(2, 4, None))>>,
                  <<Condition(EQ, V(2, 3, 9))>>>>
           /\ VersionSelector_str(outcome[c].val) = ExampleRendered

\* C5: when the grammar or lexer rejects the input, parse raises ParseFailure
\* and never an exception of the grammar engine.
C5_GrammarFailureIsParseFailure ==
    \A c \in Callers :
        Done(c) /\ tokenize(arg_content[c]).exc # "None"
        => outcome[c].exc = "ParseFailure"

\* C6: when the transformation raises a VisitError, parse raises the wrapped
\* cause itself if that is a ParseFailure or an InvalidExpression, and the
\* VisitError unchanged for every other cause.
C6_VisitErrorUnwrapped ==
    \A c \in Callers :
        Done(c) /\ caught[c].exc = "VisitError"
        => IF caught[c].orig_exc.exc \in {"ParseFailure", "InvalidExpression"}
           THEN outcome[c] = caught[c].orig_exc
           ELSE outcome[c] = caught[c]

\* one call ended with the InvalidExpression of a rejected condition or range,
\* the other with the VisitError of a cause of another class
C6_Witness ==
    \E c, d \in Callers :
        /\ Done(c) /\ caught[c].exc = "VisitError"
        /\ caught[c].orig_exc.exc = "InvalidExpression"
        /\ outcome[c].exc = "InvalidExpression"
        /\ Done(d) /\ caught[d].exc = "VisitError"
        /\ caught[d].orig_exc.exc \notin {"ParseFailure", "InvalidExpression"}
        /\ outcome[d].exc = "VisitError"

\* some clause holds a pair of entries whose match is false
Conflicting(clauses) ==
    \E k \in 1..Len(clauses) :
        \E i, j \in 1..Len(clauses[k]) :
            i < j /\ ~match(clauses[k][i], clauses[k][j]).val

\* C8: of two concurrent parse calls on one parser, each builds its selector
\* under its own validate flag: a call with validate=True rejects a conflicting
\* clause and a call with validate=False accepts it.
C8_OwnFlagApplied ==
    \A c \in Callers :
        Done(c) /\ passed[c] # "none"
        => /\ passed[c] = arg_validate[c]
           /\ outcome[c].exc = (IF arg_validate[c] = "True" /\ Conflicting(walked[c])
                               THEN "InvalidExpression" ELSE "None")

(***************************************************************************)
(* version.PartialVersion.from_string and the pattern it matches.          *)
(***************************************************************************)
AllIn(w, set) == \A i \in 1..Len(w) : w[i] \in set

\* a number pattern that takes leading zeros: [0-9]+
NUMBER_PATTERN_any_digits(w) == w # <<>> /\ AllIn(w, Digits)

\* MAJOR_PATTERN, MINOR_PATTERN, PATCH_PATTERN: 0|[1-9][0-9]*
NUMBER_PATTERN(w) ==
    w = <<"0">> \/ (w # <<>> /\ AllIn(w, Digits) /\ w[1] # "0")

\* one identifier of PRERELEASE_PATTERN:
\* 0|[1-9][0-9]*|[0-9]*[a-zA-Z-][0-9a-zA-Z-]*
PRERELEASE_IDENTIFIER(w) ==
    \/ NUMBER_PATTERN(w)
    \/ /\ w # <<>>
       /\ AllIn(w, VERSION_ALPHANUMERIC)
       /\ \E i \in 1..Len(w) : w[i] \notin Digits

\* PRERELEASE_PATTERN: identifiers separated by dots
PRERELEASE_PATTERN(w) ==
    Let(split(w, <<>>), LAMBDA parts :
        \A i \in 1..Len(parts) : PRERELEASE_IDENTIFIER(parts[i]))

\* BUILD_PATTERN: [0-9a-zA-Z-]+(?:\.[0-9a-zA-Z-]+)*
BUILD_PATTERN(w) ==
    Let(split(w, <<>>), LAMBDA parts :
        \A i \in 1..Len(parts) :
            parts[i] # <<>> /\ AllIn(parts[i], VERSION_ALPHANUMERIC))

NoMatch == [ok |-> FALSE, major |-> NoneStr, minor |-> NoneStr, patch |-> NoneStr,
            prerelease |-> NoneStr, build |-> NoneStr]

\* the groups of a match whose numbers are core and whose suffix is rest, the
\* first "+" of the suffix being at plus
groupdict(core, rest, plus) ==
    LET hyphen == At(rest, 1) = "-"
        prerelease == IF hyphen THEN SubSeq(rest, 2, plus - 1) ELSE NoneStr
        build == IF plus <= Len(rest) THEN SubSeq(rest, plus + 1, Len(rest))
                 ELSE NoneStr
        ok == /\ Len(core) \in 1..3
              /\ \A i \in 1..Len(core) : NUMBER_PATTERN(core[i])
              /\ rest # <<>> => Len(core) = 3
              /\ hyphen => PRERELEASE_PATTERN(prerelease)
              /\ plus <= Len(rest) => BUILD_PATTERN(build)
    IN  IF ~ok THEN NoMatch
        ELSE [ok |-> TRUE,
              major |-> core[1],
              minor |-> IF Len(core) >= 2 THEN core[2] ELSE NoneStr,
              patch |-> IF Len(core) >= 3 THEN core[3] ELSE NoneStr,
              prerelease |-> prerelease,
              build |-> build]

\* cls._pattern.fullmatch(version) with PARTIAL_VERSION_PATTERN
fullmatch(string) ==
    Let(find(string, 1, {"-", "+"}), LAMBDA cut :
    Let(split(SubSeq(string, 1, cut - 1), <<>>), LAMBDA core :
    Let(SubSeq(string, cut, Len(string)), LAMBDA rest :
    Let(find(rest, 1, {"+"}), LAMBDA plus :
        groupdict(core, rest, plus)))))

\* int(value) if value and key in ("major", "minor", "patch") else value
group_int(value) == IF value = NoneStr \/ value = <<>> THEN None ELSE int(value)

from_string(string) ==
    Let(fullmatch(string), LAMBDA groups :
        IF ~groups.ok THEN Raise("ValueError")
        ELSE Return(PartialVersion(group_int(groups.major), group_int(groups.minor),
                                   group_int(groups.patch), groups.prerelease,
                                   groups.build)))

(***************************************************************************)
(* The caller's direct uses of PartialVersion.  As for the engine, a       *)
(* behaviour is one call.                                                  *)
(***************************************************************************)
\* the prereleases of the precedence example of semver.org, in rising order
PrecedenceExample ==
    <<<<"a", "l", "p", "h", "a">>,
      <<"a", "l", "p", "h", "a", ".", "1">>,
      <<"a", "l", "p", "h", "a", ".", "b", "e", "t", "a">>,
      <<"b", "e", "t", "a">>,
      <<"b", "e", "t", "a", ".", "2">>,
      <<"b", "e", "t", "a", ".", "1", "1">>,
      <<"r", "c", ".", "1">>>>

\* prereleases whose numeric identifier is written with leading zeros, and
\* prereleases that continue the same number with a second identifier
LeadingZeros == {<<"0", "1">>, <<"0", "0", "1">>, <<"1">>, <<"1", ".", "a">>, <<"1", ".", "0">>}

ComparedPrereleases ==
    {NoneStr} \cup {PrecedenceExample[i] : i \in 1..Len(PrecedenceExample)}
    \cup LeadingZeros

\* the versions handed to compare: 1, 2, and 1.0.0 and 1.1.0 with every prerelease
ComparedVersions ==
    {V(1, None, None), V(2, None, None)}
    \cup {PartialVersion(1, m, 0, pre, NoneStr) :
            <<m, pre>> \in {0, 1} \X ComparedPrereleases}

Builds == {NoneStr, <<"b">>, <<"0", "0", "1">>, <<"a", ".", "1">>}

\* the versions handed to the relational operators: with and without build
BuiltVersions ==
    {PartialVersion(1, m, 0, pre, build) :
        <<m, pre, build>> \in
            {0, 1} \X {NoneStr, PrecedenceExample[1], PrecedenceExample[2]} \X Builds}

MaxLiteralLen == 4

LiteralAlphabet == {"0", "1", ".", "-", "+", "a"}

\* the literals named by the specification
ExampleLiterals ==
    {<<"0", "1">>, <<"1", ".", "0", "2">>, <<"1", ".", "2", ".", "0", "0", "3">>,
     <<"1", "-", "a", "l", "p", "h", "a">>, <<"1", ".", "2", "+", "b">>,
     <<"1", ".", "2", ".", "3", "-", "r", "c", ".", "1", "+", "b">>}

\* the strings handed to parse and to from_string as version literals: the
\* short strings, 1.0.0 followed by a short string, and the examples
Literals ==
    {<<>>} \cup SeqsUpTo(LiteralAlphabet, MaxLiteralLen)
    \cup {<<"1", ".", "0", ".", "0">> \o w :
            w \in SeqsUpTo(LiteralAlphabet, MaxLiteralLen - 1)}
    \cup ExampleLiterals

\* the versions whose fields respect the nesting: patch only with minor,
\* prerelease and build only with patch
NestedVersions ==
    {PartialVersion(M, None, None, NoneStr, NoneStr) : M \in 0..MaxMajor}
    \cup {PartialVersion(M, m, None, NoneStr, NoneStr) :
            <<M, m>> \in (0..MaxMajor) \X (0..MaxMinor)}
    \cup {PartialVersion(M, m, p, pre, build) :
            <<M, m, p, pre, build>> \in
                (0..MaxMajor) \X (0..MaxMinor) \X (0..MaxPatch)
                \X ({NoneStr, PrecedenceExample[1], PrecedenceExample[2]}
                    \cup LeadingZeros)
                \X Builds}

VersionCalls ==
    {[name |-> "compare", self |-> a, other |-> b, third |-> c] :
        <<a, b, c>> \in ComparedVersions \X ComparedVersions \X ComparedVersions}
    \cup {[name |-> "relational", self |-> a, other |-> b] :
        <<a, b>> \in BuiltVersions \X BuiltVersions}
    \cup {[name |-> "from_string_str", self |-> v] : v \in NestedVersions}
    \cup {[name |-> "from_string", string |-> w] : w \in Literals}

\* the caller compares self, other and third with each other
Compare ==
    /\ ret.exc = "Pending"
    /\ call.name = "compare"
    /\ ret' = Return([self_self |-> compare(call.self, call.self),
                      self_other |-> compare(call.self, call.other),
                      other_self |-> compare(call.other, call.self),
                      other_third |-> compare(call.other, call.third),
                      self_third |-> compare(call.self, call.third)])
    /\ UNCHANGED <<call, parse_vars>>

\* the results of compare and of the six relational operators on two versions
relational(self, other) ==
    [compare |-> compare(self, other),
     __eq__ |-> __eq__(self, other), __ne__ |-> __ne__(self, other),
     __lt__ |-> __lt__(self, other), __le__ |-> __le__(self, other),
     __gt__ |-> __gt__(self, other), __ge__ |-> __ge__(self, other)]

\* the caller compares self with other in every way
Relational ==
    /\ ret.exc = "Pending"
    /\ call.name = "relational"
    /\ ret' = Return(relational(call.self, call.other))
    /\ UNCHANGED <<call, parse_vars>>

\* the caller builds a version from a string
FromString ==
    /\ ret.exc = "Pending"
    /\ call.name = "from_string"
    /\ ret' = from_string(call.string)
    /\ UNCHANGED <<call, parse_vars>>

\* the caller renders self and builds a version from the string
FromStringStr ==
    /\ ret.exc = "Pending"
    /\ call.name = "from_string_str"
    /\ ret' = from_string(PartialVersion_str(call.self))
    /\ UNCHANGED <<call, parse_vars>>

InitVersion ==
    /\ call \in VersionCalls
    /\ ret = Pending
    /\ Idle

NextVersion ==
    \/ Compare
    \/ Relational
    \/ FromStringStr
    \/ FromString

SpecVersion == InitVersion /\ [][NextVersion]_vars

(***************************************************************************)
(* Claims about PartialVersion.                                            *)
(***************************************************************************)
Compared == call.name = "compare" /\ ret.exc # "Pending"

\* C11: compare is a total order modulo build metadata: every result is -1, 0
\* or 1, compare(a, a) = 0, compare(a, b) = -compare(b, a), and a <= b with
\* b <= c implies a <= c.
C11_CompareTotalOrder ==
    Compared =>
        /\ \A f \in DOMAIN ret.val : ret.val[f] \in {-1, 0, 1}
        /\ ret.val.self_self = 0
        /\ ret.val.self_other = -ret.val.other_self
        /\ (ret.val.self_other <= 0 /\ ret.val.other_third <= 0
            => ret.val.self_third <= 0)

\* precedence of two prerelease identifiers under semantic versioning
IdentifierPrecedence(x, y) ==
    LET numeric(w) == w # <<>> /\ AllIn(w, Digits)
    IN  IF numeric(x) /\ numeric(y) THEN cmp(int(x), int(y))
        ELSE IF numeric(x) THEN -1
        ELSE IF numeric(y) THEN 1
        ELSE cmp_str(x, y)

\* precedence of two prereleases under semantic versioning: the first
\* differing identifier decides, a strict prefix is lower, and no prerelease
\* is above any prerelease
SemverPrecedence(p, q) ==
    IF p = NoneStr /\ q = NoneStr THEN 0
    ELSE IF p = NoneStr THEN 1
    ELSE IF q = NoneStr THEN -1
    ELSE LET A == split(p, <<>>)
             B == split(q, <<>>)
             differing == {i \in 1..Min(Len(A), Len(B)) :
                             IdentifierPrecedence(A[i], B[i]) # 0}
         IN  IF differing # {}
             THEN LET i == CHOOSE k \in differing : \A j \in differing : k <= j
                  IN  IdentifierPrecedence(A[i], B[i])
             ELSE cmp(Len(A), Len(B))

SameCore(a, b) == SubSeq(to_tuple(a), 1, 3) = SubSeq(to_tuple(b), 1, 3)

\* position of a prerelease in the precedence example, 0 if it is not in it
ExamplePosition(p) ==
    IF \E i \in 1..Len(PrecedenceExample) : PrecedenceExample[i] = p
    THEN CHOOSE i \in 1..Len(PrecedenceExample) : PrecedenceExample[i] = p
    ELSE 0

\* C12: for two versions of equal (major, minor-or-0, patch-or-0), compare is
\* the semantic-version precedence of their prereleases; in particular the
\* example alpha < alpha.1 < alpha.beta < beta < beta.2 < beta.11 < rc.1 rises
\* and ends below the version without prerelease.
C12_PrereleasePrecedence ==
    Compared /\ SameCore(call.self, call.other) =>
        /\ ret.val.self_other =
              SemverPrecedence(call.self.prerelease, call.other.prerelease)
        /\ LET i == ExamplePosition(call.self.prerelease)
               j == ExamplePosition(call.other.prerelease)
           IN  /\ (i > 0 /\ j > 0 => ret.val.self_other = cmp(i, j))
               /\ (i > 0 /\ call.other.prerelease = NoneStr
                   => ret.val.self_other = -1)

\* the version with its build unset
WithoutBuild(v) == [v EXCEPT !.build = NoneStr]

\* C13: build metadata never affects ordering or equality: compare and the six
\* relational operators give on two versions what they give on the same two
\* versions without their builds.
C13_BuildIgnored ==
    Returned("relational") =>
        ret.val = relational(WithoutBuild(call.self), WithoutBuild(call.other))

\* two versions that differ in their build only were compared and found equal
C13_Witness ==
    /\ Returned("relational")
    /\ call.self.build # call.other.build
    /\ call.self.build # NoneStr
    /\ WithoutBuild(call.self) = WithoutBuild(call.other)
    /\ ret.val.compare = 0
    /\ ret.val.__eq__

\* the fields of a version that are set
FieldsSet(v) ==
    [minor |-> v.minor # None, patch |-> v.patch # None,
     prerelease |-> v.prerelease # NoneStr, build |-> v.build # NoneStr]

\* C14: for every version whose fields respect the nesting, from_string(str(v))
\* returns a version equal to v with the same fields set and unset, whose
\* rendering is the rendering of v.
C14_FromStringOfStr ==
    Returned("from_string_str") =>
        /\ ret.exc = "None"
        /\ __eq__(ret.val, call.self)
        /\ FieldsSet(ret.val) = FieldsSet(call.self)
        /\ PartialVersion_str(ret.val) = PartialVersion_str(call.self)

(***************************************************************************)
(* Claims about the compatibility of conditions and the validity of        *)
(* clauses.                                                                *)
(***************************************************************************)
\* C18: a minor-constrained and a major-constrained condition match exactly
\* when their versions have the same major number, whichever of the two
\* receives the call.
C18_MinorMajorMatchOnMajor ==
    (/\ Returned("match")
     /\ call.self.kind = "VersionCondition" /\ call.other.kind = "VersionCondition"
     /\ {call.self.operator, call.other.operator} = {MINOR, MAJOR})
    => /\ ret.exc = "None"
       /\ ret.val <=> call.self.version.major = call.other.version.major

\* ~2.0 has received ^1 and does not match it
C18_Witness ==
    /\ Returned("match")
    /\ call.self = Condition(MINOR, V(2, 0, None))
    /\ call.other = Condition(MAJOR, V(1, None, None))
    /\ ret.exc = "None"
    /\ ret.val = FALSE

\* C19: a selector whose only AND-clause besides =1.5.2 is >1 <1.3 constructs
\* with validation, and the selector of the one clause >1 <1.3 ^2 fails with
\* InvalidExpression.
C19_BoundsValidCaretConflicts ==
    Returned("VersionSelector") /\ call.validate = "absent"
                                /\ call.clauses \in ExampleSelectors
    => IF \E i \in 1..Len(call.clauses) : Len(call.clauses[i]) = 3
       THEN ret.exc = "InvalidExpression"
       ELSE ret.exc = "None" /\ ret.val.clauses = call.clauses

\* the dot-free stretches of x between two dots or ends, as pairs of positions
Segments(x) ==
    {t \in (1..Len(x)) \X (1..Len(x)) :
        /\ t[1] <= t[2]
        /\ \A k \in t[1]..t[2] : x[k] # "."
        /\ (t[1] = 1 \/ x[t[1] - 1] = ".")
        /\ (t[2] = Len(x) \/ x[t[2] + 1] = ".")}

\* x is a list of non-empty stretches separated by single dots
DotSeparated(x) ==
    /\ x # <<>>
    /\ x[1] # "." /\ x[Len(x)] # "."
    /\ \A k \in 1..(Len(x) - 1) : ~(x[k] = "." /\ x[k + 1] = ".")

Numeric(x, t) == \A k \in t[1]..t[2] : x[k] \in Digits

NoLeadingZero(x, t) == t[2] > t[1] => x[t[1]] # "0"

Alphanumeric(x, t) == \A k \in t[1]..t[2] : x[k] \in Digits \cup Letters \cup {"-"}

\* w is MAJOR[.MINOR[.PATCH[-PRERELEASE][+BUILD]]]: numbers without leading
\* zero, a prerelease of numbers without leading zero and alphanumeric
\* identifiers, a build of alphanumeric identifiers
WellFormed(w) ==
    \E i \in 1..Len(w) : \E j \in i..Len(w) :
        LET core == SubSeq(w, 1, i)
            pre == SubSeq(w, i + 1, j)
            build == SubSeq(w, j + 1, Len(w))
        IN  /\ DotSeparated(core)
            /\ Cardinality(Segments(core)) <= 3
            /\ \A t \in Segments(core) : Numeric(core, t) /\ NoLeadingZero(core, t)
            /\ (pre # <<>> \/ build # <<>>) => Cardinality(Segments(core)) = 3
            /\ pre # <<>> =>
                  /\ pre[1] = "-"
                  /\ DotSeparated(Tail(pre))
                  /\ \A t \in Segments(Tail(pre)) :
                        /\ Alphanumeric(Tail(pre), t)
                        /\ Numeric(Tail(pre), t) => NoLeadingZero(Tail(pre), t)
            /\ build # <<>> =>
                  /\ build[1] = "+"
                  /\ DotSeparated(Tail(build))
                  /\ \A t \in Segments(Tail(build)) : Alphanumeric(Tail(build), t)

\* C16: from_string returns a version exactly when the whole string is
\* MAJOR[.MINOR[.PATCH[-PRERELEASE][+BUILD]]]; for every other string it raises
\* ValueError and produces no version.
C16_FromStringWholeMatch ==
    Returned("from_string") =>
        /\ ret.exc = "None" <=> WellFormed(call.string)
        /\ ret.exc # "None" => ret.exc = "ValueError" /\ ret.val = FALSE

\* from_string has refused the prerelease without patch 1-alpha
C16_Witness ==
    /\ Returned("from_string")
    /\ call.string = <<"1", "-", "a", "l", "p", "h", "a">>
    /\ ~WellFormed(call.string)
    /\ ret.exc = "ValueError"

(***************************************************************************)
(* SemselParser.parse called by one thread: the first caller parses the    *)
(* rendering of a selector or a version literal, the second never calls.   *)
(***************************************************************************)
\* entries the rendered selectors are made of: every operator, versions of
\* one to three numbers, with prerelease and build, and a range
RenderedEntries ==
    {Condition(EQ, V(1, None, None)),
     Condition(GE, PartialVersion(1, 1, 0, PrecedenceExample[1], <<"b">>)),
     Condition(LT, V(2, 0, None)),
     Condition(GT, V(0, 0, 1)),
     Condition(LE, V(2, None, None)),
     Condition(MAJOR, V(1, None, None)),
     Condition(MINOR, V(1, 1, None)),
     Range(V(0, 1, None), V(1, 1, None))}

\* the clauses of the selectors handed to str(): one or more clauses of one or
\* more entries out of two, and every entry alone
RenderedClauses ==
    SeqsUpTo(SeqsUpTo({Condition(GE, PartialVersion(1, 1, 0, PrecedenceExample[1],
                                                    <<"b">>)),
                       Range(V(0, 1, None), V(1, 1, None))},
                      MaxClauseLen),
             MaxClauses)
    \cup {<<<<e>>>> : e \in RenderedEntries}

ParseCalls ==
    {[name |-> "parse_str", selector |-> Selector(c), validate |-> "False"] :
        c \in RenderedClauses}
    \cup {[name |-> "parse_literal", literal |-> w, validate |-> "True"] :
            w \in Literals}

\* the content the first caller hands to parse
content_of(c) ==
    IF c.name = "parse_str" THEN VersionSelector_str(c.selector) ELSE c.literal

InitSingle ==
    /\ call \in ParseCalls
    /\ ret = Pending
    /\ arg_content = [c \in Callers |-> IF c = 1 THEN content_of(call) ELSE <<>>]
    /\ arg_validate = [c \in Callers |-> call.validate]
    /\ pc = [c \in Callers |-> IF c = 1 THEN "parse" ELSE "idle"]
    /\ cache = NoTransformer
    /\ transformer = [c \in Callers |-> NoTransformer]
    /\ __validate = [t \in Transformers |-> "unset"]
    /\ tree = [c \in Callers |-> NoException]
    /\ walked = [c \in Callers |-> <<>>]
    /\ passed = [c \in Callers |-> "none"]
    /\ caught = [c \in Callers |-> NoException]
    /\ outcome = [c \in Callers |-> Pending]

SpecSingle == InitSingle /\ [][NextParse]_vars

(***************************************************************************)
(* Claims about rendering and the grammar.                                 *)
(***************************************************************************)
SameEntry(x, y) ==
    /\ x.kind = y.kind
    /\ IF x.kind = "VersionCondition"
       THEN x.operator = y.operator /\ __eq__(x.version, y.version)
       ELSE /\ __eq__(x.version_start, y.version_start)
            /\ __eq__(x.version_end, y.version_end)

SameClauses(A, B) ==
    /\ Len(A) = Len(B)
    /\ \A i \in 1..Len(A) :
          /\ Len(A[i]) = Len(B[i])
          /\ \A j \in 1..Len(A[i]) : SameEntry(A[i][j], B[i][j])

\* C15: parse(str(S), validate=False) returns a selector with the clauses of
\* S: as many clauses, and in each the same entries in the same order with
\* the same operator and equal versions or range endpoints.
C15_RenderingParsesBack ==
    call.name = "parse_str" /\ Done(1) =>
        /\ outcome[1].exc = "None"
        /\ SameClauses(outcome[1].val.clauses, call.selector.clauses)

\* the first caller's tokenize has returned or raised
Tokenized == pc[1] \in {"transform", "walk", "selector", "except", "done"}

\* C17: the grammar accepts a version literal exactly when from_string
\* accepts it; in particular it rejects a major, minor or patch written with
\* a leading zero.
C17_GrammarLiteralsAreFromStringLiterals ==
    call.name = "parse_literal" /\ Tokenized =>
        (outcome[1].exc # "UnexpectedInput"
            <=> from_string(call.literal).exc = "None")

(***************************************************************************)
(* The operations that receive a value and return without building one of  *)
(* the library's objects from a string: the caller hands a PartialVersion, *)
(* a VersionCondition, a VersionRange or the clauses of a VersionSelector  *)
(* to one operation.                                                       *)
(***************************************************************************)
\* attr.asdict(self)
to_dict(self) ==
    [major |-> self.major, minor |-> self.minor, patch |-> self.patch,
     prerelease |-> self.prerelease, build |-> self.build]

\* str(self) for an object of the class
str(class, self) ==
    CASE class = "PartialVersion" -> PartialVersion_str(self)
      [] class = "VersionSelector" -> VersionSelector_str(self)
      [] OTHER -> expression_str(self)

FrameVersions ==
    {V(1, None, None), V(1, 0, None),
     PartialVersion(1, 0, 0, PrecedenceExample[1], NoneStr),
     PartialVersion(1, 0, 0, <<"0", "1">>, <<"b">>)}

\* the clauses of the selectors: the examples, every entry alone, and a
\* selector of two clauses that validation accepts
FrameSelectors ==
    ExampleSelectors
    \cup {<<<<e>>>> : e \in RenderedEntries}
    \cup {<<<<Condition(MAJOR, V(1, None, None)), Condition(MINOR, V(1, 1, None))>>,
             <<Condition(EQ, V(1, None, None))>>>>}

FrameCalls ==
    {[name |-> "compare", self |-> a, other |-> b, third |-> c] :
        <<a, b, c>> \in FrameVersions \X FrameVersions \X FrameVersions}
    \cup {[name |-> "relational", self |-> a, other |-> b] :
            <<a, b>> \in FrameVersions \X FrameVersions}
    \cup {[name |-> "bounds", self |-> a, other |-> b] :
            <<a, b>> \in NestedVersions \X FrameVersions}
    \cup {[name |-> "to_tuple", self |-> v] : v \in NestedVersions}
    \cup {[name |-> "to_dict", self |-> v] : v \in NestedVersions}
    \cup {[name |-> "str", class |-> "PartialVersion", self |-> v] :
            v \in NestedVersions}
    \cup {[name |-> "str", class |-> e.kind, self |-> e] : e \in RenderedEntries}
    \cup {[name |-> "str", class |-> "VersionSelector", self |-> Selector(c)] :
            c \in FrameSelectors}
    \cup {[name |-> "match", self |-> X, other |-> Y] :
            <<X, Y>> \in RenderedEntries \X RenderedEntries}
    \cup {[name |-> "VersionSelector", clauses |-> c, validate |-> "absent"] :
            c \in FrameSelectors}

\* the caller asks whether other is within the major and the minor bounds
Bounds ==
    /\ ret.exc = "Pending"
    /\ call.name = "bounds"
    /\ ret' = Return([__major__ |-> __major__(call.self, call.other),
                      __minor__ |-> __minor__(call.self, call.other)])
    /\ UNCHANGED <<call, parse_vars>>

\* a to_tuple that stores the defaults it returns
ToTuple_in_place ==
    /\ ret.exc = "Pending"
    /\ call.name = "to_tuple"
    /\ ret' = Return(to_tuple(call.self))
    /\ call' = [call EXCEPT !.self.minor = OrZero(@), !.self.patch = OrZero(@)]
    /\ UNCHANGED parse_vars

ToTuple ==
    /\ ret.exc = "Pending"
    /\ call.name = "to_tuple"
    /\ ret' = Return(to_tuple(call.self))
    /\ UNCHANGED <<call, parse_vars>>

ToDict ==
    /\ ret.exc = "Pending"
    /\ call.name = "to_dict"
    /\ ret' = Return(to_dict(call.self))
    /\ UNCHANGED <<call, parse_vars>>

Str ==
    /\ ret.exc = "Pending"
    /\ call.name = "str"
    /\ ret' = Return(str(call.class, call.self))
    /\ UNCHANGED <<call, parse_vars>>

InitFrame ==
    /\ call \in FrameCalls
    /\ ret = Pending
    /\ Idle

NextFrame ==
    \/ Compare
    \/ Relational
    \/ Bounds
    \/ ToTuple
    \/ ToDict
    \/ Str
    \/ Match
    \/ NewVersionSelector

SpecFrame == InitFrame /\ [][NextFrame]_vars

\* C20: no operation changes a field of a value it receives, and validation,
\* failed or successful, leaves the clauses and their entries as they were
\* given; a selector that was built holds them.
C20_ValuesNeverMutated ==
    [][/\ call' = call
       /\ (call.name = "VersionSelector" /\ ret'.exc = "None"
           => ret'.val.clauses = call.clauses)]_vars

\* to_tuple has returned 0 for the minor of a version whose minor is unset
C20_Witness ==
    /\ Returned("to_tuple")
    /\ call.self.minor = None
    /\ ret.val[2] = 0

(***************************************************************************)
(* Claims about selector validation and the match of two entries.          *)
(***************************************************************************)
\* the places <<c, i, j>> of the pairs of a selector's clauses, i before j,
\* whose first entry does not match the second
Conflicts(clauses) ==
    {t \in (1..Len(clauses)) \X (1..MaxClauseLen) \X (1..MaxClauseLen) :
        /\ t[2] < t[3] /\ t[3] <= Len(clauses[t[1]])
        /\ ~match(clauses[t[1]][t[2]], clauses[t[1]][t[3]]).val}

\* t comes before u in the order of the clauses and, within a clause, in the
\* lexicographic order of the index pairs
Before(t, u) ==
    \/ t[1] < u[1]
    \/ t[1] = u[1] /\ t[2] < u[2]
    \/ t[1] = u[1] /\ t[2] = u[2] /\ t[3] <= u[3]

\* C21: validation succeeds exactly when no pair of a clause conflicts;
\* otherwise it raises InvalidExpression for the first conflicting pair, in
\* the order of the clauses and of the index pairs, naming its two entries and
\* the rendering of its clause.
C21_FirstConflictRaised ==
    Returned("VersionSelector") /\ call.validate = "absent" =>
        IF Conflicts(call.clauses) = {}
        THEN ret.exc = "None"
        ELSE LET first == CHOOSE t \in Conflicts(call.clauses) :
                              \A u \in Conflicts(call.clauses) : Before(t, u)
                 clause == call.clauses[first[1]]
             IN  /\ ret.exc = "InvalidExpression"
                 /\ ret.source = clause[first[2]]
                 /\ ret.target = clause[first[3]]
                 /\ _format_clause(ret.clause) = _format_clause(clause)

\* validation has passed the pairs (1, 2) and (1, 3) of a clause and raised
\* for the pair (2, 3)
C21_Witness ==
    /\ Returned("VersionSelector")
    /\ ret.exc = "InvalidExpression"
    /\ Len(ret.clause) = 3
    /\ ret.source = ret.clause[2] /\ ret.target = ret.clause[3]
    /\ match(ret.clause[1], ret.clause[2]).val
    /\ match(ret.clause[1], ret.clause[3]).val

\* the standard operators and the result set the specification gives each
Standard == {EQ, GT, GE, LT, LE}

ResultSet(operator) ==
    CASE operator = EQ -> {0}
      [] operator = GT -> {1}
      [] operator = GE -> {0, 1}
      [] operator = LT -> {-1}
      [] operator = LE -> {-1, 0}

\* match has returned for two conditions whose operators are in the two sets
MatchedConditions(receivers, arguments) ==
    /\ Returned("match")
    /\ call.self.kind = "VersionCondition" /\ call.other.kind = "VersionCondition"
    /\ call.self.operator \in receivers /\ call.other.operator \in arguments

C23_MajorWithStandard ==
    /\ MatchedConditions({MAJOR}, Standard) =>
          /\ ret.exc = "None"
          /\ ret.val <=> cmp(call.self.version.major, call.other.version.major)
                             \in ResultSet(call.other.operator) \cup {0}
    /\ MatchedConditions(Standard, {MAJOR}) =>
          /\ ret.exc = "None"
          /\ ret.val <=> cmp(call.other.version.major, call.self.version.major)
                             \in ResultSet(call.self.operator) \cup {0}

\* C24: two minor-constrained conditions match exactly when their majors are
\* equal and their minors are equal.
C24_MinorWithMinor ==
    MatchedConditions({MINOR}, {MINOR}) =>
        /\ ret.exc = "None"
        /\ ret.val <=> /\ call.self.version.major = call.other.version.major
                       /\ call.self.version.minor = call.other.version.minor

\* C25: for a minor-constrained receiver and an argument with a standard
\* operator, the result is cmp(minor, minor-or-0 of the argument) in the
\* argument's result set when the majors are equal, and compare of the two
\* versions in that set when they differ.
C25_MinorWithStandard ==
    MatchedConditions({MINOR}, Standard) =>
        /\ ret.exc = "None"
        /\ ret.val <=>
              IF call.other.version.major = call.self.version.major
              THEN cmp(call.self.version.minor,
                       IF call.other.version.minor = None THEN 0
                       ELSE call.other.version.minor)
                       \in ResultSet(call.other.operator)
              ELSE compare(call.self.version, call.other.version)
                       \in ResultSet(call.other.operator)

\* ~1.1 has received =1.1.1, whose major is the same, and matches it on the
\* minors although the two versions differ
C25_Witness ==
    /\ MatchedConditions({MINOR}, {EQ})
    /\ call.self.version = V(1, 1, None)
    /\ call.other.version = V(1, 1, 1)
    /\ ret.val = TRUE

\* match has returned for a condition and a range, in either order
MatchedRange(operators) ==
    /\ Returned("match")
    /\ \/ /\ call.self.kind = "VersionCondition" /\ call.other.kind = "VersionRange"
          /\ call.self.operator \in operators
       \/ /\ call.self.kind = "VersionRange" /\ call.other.kind = "VersionCondition"
          /\ call.other.operator \in operators

\* the condition and the range of such a call
ConditionOf(c) == IF c.self.kind = "VersionCondition" THEN c.self ELSE c.other

RangeOf(c) == IF c.self.kind = "VersionRange" THEN c.self ELSE c.other

\* C26: for a condition op V with a standard operator and a range S - E, in
\* either call direction, match is true exactly when the range holds a
\* version satisfying op V: S <= V <= E for =, V < E for >, V <= E for >=,
\* V > S for <, V >= S for <=.
C26_StandardWithRange ==
    MatchedRange(Standard) =>
        LET v == ConditionOf(call).version
            start == compare(v, RangeOf(call).version_start)
            end == compare(v, RangeOf(call).version_end)
            operator == ConditionOf(call).operator
        IN  /\ ret.exc = "None"
            /\ ret.val <=> CASE operator = EQ -> start >= 0 /\ end <= 0
                             [] operator = GT -> end < 0
                             [] operator = GE -> end <= 0
                             [] operator = LT -> start > 0
                             [] operator = LE -> start >= 0
            /\ ret.val <=> Satisfiable(call.self, call.other)

\* the range 0.1 - 1.1 has received >1 and matches it
C26_Witness ==
    /\ MatchedRange({GT})
    /\ call.self = Range(V(0, 1, None), V(1, 1, None))
    /\ call.other.version = V(1, None, None)
    /\ ret.val = TRUE

\* C27: a major-constrained condition ^M matches every range whose start's
\* major is at most M and whose end's major is at least M.
C27_MajorWithinRange ==
    MatchedRange({MAJOR}) /\ call.self.kind = "VersionCondition"
    /\ call.other.version_start.major <= call.self.version.major
    /\ call.self.version.major <= call.other.version_end.major
    => ret.exc = "None" /\ ret.val = TRUE

\* C28: match of two validly constructed entries returns a boolean: it never
\* raises and never takes the branch that warns.
C28_MatchTotal ==
    Returned("match") =>
        /\ ret.exc = "None"
        /\ ret.val \in BOOLEAN
        /\ ~ret.warn

\* ~1.1 has received <=1, a case that reads the minor the receiver must have
C28_Witness ==
    /\ MatchedConditions({MINOR}, {LE})
    /\ call.self.version = V(1, 1, None)
    /\ call.other.version = V(1, None, None)
    /\ ret.exc = "None"
    /\ ret.val = FALSE

(***************************************************************************)
(* The ways a PartialVersion, and the condition or range of a node, comes  *)
(* into existence: the caller constructs a version directly, from a dict,  *)
(* from a tuple or from a string, or calls a transformer callback on the   *)
(* children of a node, as the transformer and its tests do.                *)
(***************************************************************************)
\* PartialVersion.from_tuple; unpacking fewer than three values raises
from_tuple(version_tuple) ==
    IF Len(version_tuple) < 3 THEN Raise("ValueError")
    ELSE Return(PartialVersion(version_tuple[1], version_tuple[2], version_tuple[3],
                               IF Len(version_tuple) > 3 THEN version_tuple[4]
                               ELSE NoneStr,
                               IF Len(version_tuple) > 4 THEN version_tuple[5]
                               ELSE NoneStr))

\* the items of a dict that holds the keys whose value is set
dict_items(major, minor, patch) ==
    <<Token("MAJOR", major)>>
    \o (IF minor # None THEN <<Token("MINOR", minor)>> ELSE <<>>)
    \o (IF patch # None THEN <<Token("PATCH", patch)>> ELSE <<>>)

\* the children a node can have after its subtrees were transformed, by number:
\* three versions, three operators and a token that was left as it was
Child(n) ==
    CASE n = 1 -> Object("PartialVersion", V(1, None, None))
      [] n = 2 -> Object("PartialVersion", V(1, 1, None))
      [] n = 3 -> Object("PartialVersion", V(2, None, None))
      [] n = 4 -> Object("ConditionOperator", EQ)
      [] n = 5 -> Object("ConditionOperator", MINOR)
      [] n = 6 -> Object("ConditionOperator", GT)
      [] n = 7 -> Token("MAJOR", 1)

NodeChildren(kinds) == [i \in 1..Len(kinds) |-> Child(kinds[i])]

\* version literals of the grammar
VersionLiterals == {w \in Literals : Len(w) <= 3 /\ version_rule(w).ok} \cup
                   {w \in ExampleLiterals : version_rule(w).ok}

BuildCalls ==
    {[name |-> n, major |-> t[1], minor |-> t[2], patch |-> t[3]] :
        n \in {"PartialVersion", "from_dict"},
        t \in (0..1) \X {None, 0, 1} \X {None, 0, 1}}
    \cup {[name |-> "from_tuple", version_tuple |-> t \o rest] :
            t \in (0..1) \X {None, 0, 1} \X {None, 0, 1},
            rest \in {<<>>, <<PrecedenceExample[1]>>,
                      <<PrecedenceExample[1], <<"b">>>>}}
    \cup {[name |-> "from_tuple", version_tuple |-> t] : t \in {<<1>>, <<1, 0>>}}
    \cup {[name |-> "from_string", string |-> w] :
            w \in {l \in Literals : Len(l) <= 3} \cup ExampleLiterals}
    \cup {[name |-> "version", literal |-> w] : w \in VersionLiterals}
    \cup {[name |-> "version_condition", kinds |-> k] :
            k \in {<<>>} \cup SeqsUpTo(1..7, 3)}
    \cup {[name |-> "version_range", kinds |-> k] :
            k \in {<<>>} \cup SeqsUpTo(1..3, 3)}

\* PartialVersion(major, minor, patch): attrs stores what it is given
NewPartialVersion ==
    /\ ret.exc = "Pending"
    /\ call.name = "PartialVersion"
    /\ ret' = Return(PartialVersion(call.major, call.minor, call.patch,
                                    NoneStr, NoneStr))
    /\ UNCHANGED <<call, parse_vars>>

FromDict ==
    /\ ret.exc = "Pending"
    /\ call.name = "from_dict"
    /\ ret' = Return(from_dict(dict_items(call.major, call.minor, call.patch)))
    /\ UNCHANGED <<call, parse_vars>>

FromTuple ==
    /\ ret.exc = "Pending"
    /\ call.name = "from_tuple"
    /\ ret' = from_tuple(call.version_tuple)
    /\ UNCHANGED <<call, parse_vars>>

\* the version rule on the tokens of a literal the grammar derives
VersionRule ==
    /\ ret.exc = "Pending"
    /\ call.name = "version"
    /\ \E tokens \in {version_rule(call.literal).children} :
           \E result \in {visit(version([i \in 1..Len(tokens) |->
                                            transform_token(tokens[i])]))} :
               ret' = IF result.exc = "None" THEN Return(result.val.value)
                      ELSE result
    /\ UNCHANGED <<call, parse_vars>>

VersionConditionNode ==
    /\ ret.exc = "Pending"
    /\ call.name = "version_condition"
    /\ ret' = visit(version_condition(NodeChildren(call.kinds)))
    /\ UNCHANGED <<call, parse_vars>>

VersionRangeNode ==
    /\ ret.exc = "Pending"
    /\ call.name = "version_range"
    /\ ret' = visit(version_range(NodeChildren(call.kinds)))
    /\ UNCHANGED <<call, parse_vars>>

InitBuild ==
    /\ call \in BuildCalls
    /\ ret = Pending
    /\ Idle

NextBuild ==
    \/ NewPartialVersion
    \/ FromDict
    \/ FromTuple
    \/ FromString
    \/ VersionRule
    \/ VersionConditionNode
    \/ VersionRangeNode

SpecBuild == InitBuild /\ [][NextBuild]_vars

(***************************************************************************)
(* Claims about the transformer's callbacks and about construction.        *)
(***************************************************************************)
\* the callback has raised the exception, which left the transformer as the
\* cause of a VisitError, and returned nothing
FailedWith(exception) ==
    /\ ret.exc = "VisitError"
    /\ ret.orig_exc.exc = exception
    /\ ret.val = FALSE

C30_PatchOnlyWithMinor ==
    /\ call.name \in {"PartialVersion", "from_dict", "from_tuple", "from_string",
                      "version"}
    /\ ret.exc = "None"
    => (ret.val.patch # None => ret.val.minor # None)

====
